---- MODULE Spec2Model ----
(***************************************************************************)
(* Client-side session consistency of the Somnium front end: the persisted *)
(* auth store (stores/auth-store.ts), the validateSession query and the    *)
(* hooks that observe it (hooks/use-session-restore.ts), the route guard   *)
(* (components/auth/auth-guard.tsx), the login / register / logout         *)
(* handlers and the server-side middleware.                                *)
(***************************************************************************)
EXTENDS Integers, FiniteSets, Sequences, TLC

\* ------------------------------------------------------------------ values

Null == "null"
Undefined == "undefined"

\* Users are identified by their role (lib/validations/auth.ts userRoleSchema);
\* two of the four roles are enough to separate "allowed" from "not allowed".
Roles == {"nurse", "admin"}

\* The protected routes a user opens by link or URL.
Dashboards == {"/dashboard", "/dashboard/admin"}

\* pathname.startsWith("/auth")
startsWithAuth(p) == p = "/auth"
\* pathname.startsWith("/dashboard")
startsWithDashboard(p) == p \in Dashboards

\* ------------------------------------------------------------------ bounds

\* Date.now() when the page is first opened, and the latest instant (ms) the
\* model lets time advance to.
InitNow == 2000
MaxNow == 12000
\* Amounts (ms) by which the clock advances between two renders.
TickSteps == {10000}

\* Grace periods of the two useSessionValidator revisions that have one.
GRACE_PERIOD_MS_10 == 10000
GRACE_PERIOD_MS_2 == 2000

\* ------------------------------------------------------------------ state

VARIABLES
    store,          \* the zustand AuthState (auth-store.ts:33-39)
    lastAuthTime,   \* AuthState._lastAuthTime read by the hooks
    storage,        \* localStorage["somnium-auth"], Absent or the persisted state
    storedLastAuthTime, \* the persisted _lastAuthTime
    now,            \* Date.now()
    cookie,         \* session cookies of the browser: "none" | "valid" | "revoked"
    cookieUser,     \* the user the cookies were issued for
    query,          \* the React Query cache entry of auth.validateSession
    req,            \* the validateSession request in flight, NoReq if none
    pathname,       \* usePathname()
    search,         \* the current URL's query parameters
    nav,            \* the pending router.push target, NoNav if none
    revalidator,    \* which revalidation hook the application mounts
    guardVariant,   \* which AuthGuard revision the application mounts
    guards,         \* per AuthGuard instance: sessionChecked, the state of its effect, and
                    \* (observation) the validateSession requests issued for it since it
                    \* mounted
    obs,            \* per observer of the query: "off" | "armed" (will fetch) | "on"
    loginPc,        \* position of LoginForm.onSubmit
    lastOp,         \* observation: who called logout() last ("validator", "handler"), or
                    \* "loginOverDenial" after a login that found a {user: null} answer
                    \* cached or in flight, "none" otherwise
    expiredPushes,  \* router.push calls carrying session_expired=true since the last setAuth
    guardPushes,    \* router.push calls of AuthGuard effects since the last navigation commit
                    \* or change of the store's isAuthenticated and user
    csrfToken,      \* use-csrf.ts:10, Null or the token (named by the fetch that returned it)
    csrfPromise,    \* use-csrf.ts:11, Null or the fetch whose promise it holds
    fetches,        \* per fetch of /api/csrf: its state, and whether clearCsrfToken ran
                    \* while it was in flight
    flows,          \* per submission (login, register, two clicks on Sign Out): its position
    probe,          \* the arguments and result of a pure function under test
    sse,            \* one useSSE instance: its props, state, ref and connections
    tokenRefresh    \* useTokenRefresh in DashboardLayout: its ref and the timers it set

\* The state of the pages, hooks and guards.
appVars == <<store, lastAuthTime, storage, storedLastAuthTime, now, cookie, cookieUser,
             query, req, pathname, search, nav, revalidator, guardVariant, guards, obs,
             loginPc, lastOp, expiredPushes, guardPushes>>

\* The module state of use-csrf.ts and the submissions that use it.
csrfVars == <<csrfToken, csrfPromise, fetches, flows>>

\* The state of the two hooks that run beside the pages.
hookVars == <<sse, tokenRefresh>>

vars == <<appVars, csrfVars, probe, hookVars>>

\* _lastAuthTime === null
NoTime == 0 - 1

\* The store's handling of _lastAuthTime (the hooks read it, the forms' setAuth
\* sets it): setAuth records the time of the call, logout clears it.
recordAuthTime(t) == t
clearedAuthTime == NoTime

\* cookieUser when the browser holds no session cookies
NoUser == Null

\* ------------------------------------------------------------ auth store

\* auth-store.ts:33-39
InitialStore ==
    [user |-> Null, token |-> Null, refreshToken |-> Null,
     isAuthenticated |-> FALSE, isLoading |-> TRUE,
     hasHydrated |-> FALSE, rememberMe |-> FALSE]

\* A setAuth that stores the user but does not raise the session flag.
setAuthUserOnly(s, u, t, rt, rm) ==
    [s EXCEPT !.user = u, !.token = t, !.refreshToken = rt,
              !.isLoading = FALSE, !.rememberMe = rm]

\* auth-store.ts:41-50
setAuth(s, u, t, rt, rm) ==
    [s EXCEPT !.user = u, !.token = t, !.refreshToken = rt,
              !.isAuthenticated = TRUE, !.isLoading = FALSE, !.rememberMe = rm]

\* A logout that forgets the user but leaves the session flag set.
logoutKeepsFlag(s) == [s EXCEPT !.user = Null, !.isLoading = FALSE]

\* auth-store.ts:52-61
logout(s) ==
    [s EXCEPT !.user = Null, !.token = Null, !.refreshToken = Null,
              !.isAuthenticated = FALSE, !.isLoading = FALSE, !.rememberMe = FALSE]

\* auth-store.ts:63-67
setLoading(s, loading) == [s EXCEPT !.isLoading = loading]

\* auth-store.ts:69-74
setHasHydrated(s, hydrated) == [s EXCEPT !.hasHydrated = hydrated, !.isLoading = FALSE]

\* userRoleSchema, lib/validations/auth.ts:4-9: the keys of ROLE_SCOPES
UserRoles == {"nurse", "physician", "admin", "ecmo_specialist"}

\* ROLE_SCOPES, lib/validations/auth.ts:58-82; no entry (undefined) for any
\* other role
ROLE_SCOPES(role) ==
    CASE role = "nurse" -> {"read:patients", "write:vitals", "write:labs"}
      [] role = "physician" -> {"read:patients", "write:patients", "write:vitals",
                                "write:labs", "read:predictions"}
      [] role = "ecmo_specialist" -> {"read:patients", "write:patients", "write:vitals",
                                      "write:labs", "read:predictions"}
      [] role = "admin" -> {"read:patients", "write:patients", "write:vitals",
                            "write:labs", "read:predictions", "manage:users"}
      [] OTHER -> {}

\* A lookup that grants every scope to a role the table does not know.
roleHasScopeDefaultTrue(role, scope) ==
    IF role \in UserRoles THEN scope \in ROLE_SCOPES(role) ELSE TRUE

\* hasScope(role, scope), lib/validations/auth.ts:85-87:
\* ROLE_SCOPES[role]?.includes(scope) ?? false
roleHasScope(role, scope) ==
    IF role \in UserRoles THEN scope \in ROLE_SCOPES(role) ELSE FALSE

\* auth-store.ts:76-80
hasScope(s, scope) ==
    IF s.user = Null THEN FALSE ELSE scope \in ROLE_SCOPES(s.user)

\* persist's partialize, auth-store.ts:84-90
partialize(s) ==
    [user |-> s.user, token |-> s.token, refreshToken |-> s.refreshToken,
     isAuthenticated |-> s.isAuthenticated, rememberMe |-> s.rememberMe]

\* The keys JSON.stringify keeps of the partialized state: a key whose value is
\* undefined is dropped (only the token fields can be undefined: setAuth(user)).
SerializedKeys(p) ==
    {k \in DOMAIN p : ~(k \in {"token", "refreshToken"} /\ p[k] = Undefined)}

\* localStorage["somnium-auth"]: the keys written and their values. An entry
\* that was never written has no keys.
Absent == [keys |-> {}, state |-> partialize(InitialStore)]

\* What persist writes after every set().
Persisted(s) ==
    LET p == partialize(s)
        ks == SerializedKeys(p)
    IN  [keys |-> ks,
         state |-> [k \in DOMAIN p |-> IF k \in ks THEN p[k] ELSE Null]]

\* A rehydration that reads back the session flag and nothing else.
MergeFlagOnly(s, entry) ==
    [k \in DOMAIN s |->
        IF k = "isAuthenticated" /\ k \in entry.keys THEN entry.state[k] ELSE s[k]]

\* persist's merge on rehydration: persisted keys override the initial state.
Merge(s, entry) ==
    [k \in DOMAIN s |-> IF k \in entry.keys THEN entry.state[k] ELSE s[k]]

\* ------------------------------------------------- validateSession (server)

\* What the backend's /auth/me can do for a request carrying these cookies.
BackendOutcomes(ck) ==
    CASE ck = "valid" -> {"ok", "server_error", "network_error", "malformed"}
      [] ck = "revoked" -> {"unauthorized", "server_error", "network_error"}
      [] OTHER -> {"no_cookie"}

\* authRouter.validateSession, server/routers/auth.ts:211-238: the user of the
\* answer {user}, Null for {user: null}.
validateSession(ck, u, backend) ==
    IF ck = "none" THEN Null                                  \* !cookieHeader
    ELSE IF backend = "network_error" THEN Null               \* fetch throws: catch
    ELSE IF backend \in {"unauthorized", "server_error"} THEN Null   \* !res.ok
    ELSE IF backend = "malformed" THEN Null                   \* parse throws: catch
    ELSE u

\* The backend said whether there is a session (a 200 with the user, a 401, or
\* no cookie to ask with); anything else is an ambiguous failure.
ExplicitAnswer(backend) == backend \in {"ok", "unauthorized", "no_cookie"}

\* ------------------------------------------------ validateSession (client)

\* The cache entry: data is Undefined, Null for {user: null}, or the user.
\* explicit and preLogin describe where the data came from (observation only).
EmptyQuery ==
    [status |-> "pending", data |-> Undefined, explicit |-> FALSE, preLogin |-> FALSE]

NoReq ==
    [active |-> FALSE, kind |-> "data", user |-> Null, explicit |-> FALSE,
     preLogin |-> FALSE]

\* useQuery's isLoading: isFetching && isPending
QIsLoading(q, r) == r.active /\ q.status = "pending"
\* useQuery's isFetched: dataUpdateCount > 0 || errorUpdateCount > 0
QIsFetched(q) == q.status # "pending"

\* A login that leaves the query cache as it is.
keepCache(q) == q

\* queryClient.clear(), login-form.tsx:103: the cache entry is removed and the
\* request in flight is cancelled.
queryClientClear(q) == EmptyQuery
cancelOnClear(r) == NoReq

\* A setAuth makes what the cache holds, and what is in flight, older than the login.
MarkStaleQ(q) == [q EXCEPT !.preLogin = (q.status # "pending")]
MarkStaleR(r) == [r EXCEPT !.preLogin = r.active]

\* ----------------------------------------------------- revalidation hooks

Revalidators == {"V1", "V2", "V3", "VA"}

\* A grace period that still holds at the instant the window has elapsed.
isWithinGracePeriodInclusive(last, t, windowMs) ==
    IF last # NoTime /\ last # 0 THEN t - last <= windowMs ELSE FALSE

\* use-session-restore.ts:71-73 and 222-225: _lastAuthTime ? Date.now() - _lastAuthTime < GRACE : false
isWithinGracePeriod(last, t, windowMs) ==
    IF last # NoTime /\ last # 0 THEN t - last < windowMs ELSE FALSE

\* use-session-restore.ts:77-82
shouldValidate(st, last, t, path) ==
    /\ st.isAuthenticated
    /\ st.hasHydrated
    /\ last # NoTime
    /\ ~isWithinGracePeriod(last, t, GRACE_PERIOD_MS_10)
    /\ ~startsWithAuth(path)

\* The enabled option of the hook's useQuery: use-session-restore.ts:88, 166, 230, 299
ValidatorEnabled(v, st, last, t, path) ==
    CASE v = "V1" -> shouldValidate(st, last, t, path)
      [] v = "V2" -> st.isAuthenticated /\ st.hasHydrated
      [] v = "V3" -> st.isAuthenticated /\ st.hasHydrated
                     /\ ~isWithinGracePeriod(last, t, GRACE_PERIOD_MS_2)
      [] OTHER -> st.hasHydrated

\* A revalidation effect that does not wait for the query: it denies as soon as
\* the store is authenticated on a protected route.
ValidatorDeniesUnsettled(v, st, last, t, path, q, r) ==
    st.isAuthenticated /\ st.hasHydrated /\ ~startsWithAuth(path)

\* The condition under which the hook's effect calls logout():
\* use-session-restore.ts:103-122 (V1), 176-181 (V2), 239-256 (V3), 305-321 (VA)
ValidatorDenies(v, st, last, t, path, q, r) ==
    CASE v = "V1" ->
            /\ ~(startsWithAuth(path) \/ ~st.hasHydrated)
            /\ ~isWithinGracePeriod(last, t, GRACE_PERIOD_MS_10)
            /\ st.isAuthenticated /\ ~QIsLoading(q, r) /\ QIsFetched(q)
            /\ q.data # Undefined /\ q.data = Null
      [] v = "V2" ->
            /\ ~(startsWithAuth(path) \/ ~st.hasHydrated)
            /\ st.isAuthenticated /\ ~QIsLoading(q, r)
            /\ q.data # Undefined /\ q.data = Null
      [] v = "V3" ->
            /\ ~(startsWithAuth(path) \/ ~st.hasHydrated)
            /\ ~isWithinGracePeriod(last, t, GRACE_PERIOD_MS_2)
            /\ st.isAuthenticated /\ ~QIsLoading(q, r) /\ QIsFetched(q)
            /\ q.data # Undefined /\ q.data = Null
      [] OTHER ->
            /\ ~(~st.hasHydrated \/ QIsLoading(q, r))
            /\ ~(q.data \in Roles)
            /\ st.isAuthenticated

\* useValidAuth's other branch, use-session-restore.ts:309-314: restore the store
ValidAuthRestores(v, st, q, r) ==
    /\ v = "VA"
    /\ ~(~st.hasHydrated \/ QIsLoading(q, r))
    /\ q.data \in Roles
    /\ ~st.isAuthenticated

\* --------------------------------------------------------------- AuthGuard

Guards == {"outer", "inner"}
GuardVariants == {"restore", "plain"}

\* The props of the two instances: DashboardLayout (physicians-only/page.tsx:259)
\* and AdminPage (admin/page.tsx:206). No page passes requiredScope.
allowedRoles(g) == IF g = "inner" THEN {"admin"} ELSE Roles
requiredScope(g) == Null

\* A session check that stays enabled after it has been answered.
RestoreEnabledUnchecked(variant, st, checked) ==
    variant = "restore" /\ st.hasHydrated /\ ~st.isAuthenticated

\* useSessionRestore's useQuery, use-session-restore.ts:26-31
RestoreEnabled(variant, st, checked) ==
    variant = "restore" /\ st.hasHydrated /\ ~st.isAuthenticated /\ ~checked

\* isValidatingSession as AuthGuard sees it (the plain revision has no such hook)
IsValidatingSession(variant, q, r) == variant = "restore" /\ QIsLoading(q, r)

\* A guard that waits for hydration only, whatever the session check does.
GuardWaitsHydrationOnly(variant, st, q, r, checked) ==
    ~st.hasHydrated \/ st.isLoading

\* auth-guard.tsx:31-32 and 62-67; unnamed/part_005:27 and 55
GuardWaits(variant, st, q, r, checked) ==
    IF variant = "restore"
    THEN \/ ~st.hasHydrated \/ st.isLoading \/ IsValidatingSession(variant, q, r)
         \/ (~checked /\ ~st.isAuthenticated)
    ELSE ~st.hasHydrated \/ st.isLoading

\* What AuthGuard returns: auth-guard.tsx:62-79, unnamed/part_005:55-67
GuardRender(variant, st, q, r, checked) ==
    IF GuardWaits(variant, st, q, r, checked) THEN "loading"
    ELSE IF ~st.isAuthenticated THEN "null"
    ELSE "children"

\* A guard that sends every user it does not let through to the login route.
GuardDecisionLoginOnly(g, variant, st, q, r, checked) ==
    IF GuardWaits(variant, st, q, r, checked) THEN "wait"
    ELSE IF ~st.isAuthenticated THEN "login"
    ELSE IF st.user # Null /\ st.user \notin allowedRoles(g) THEN "login"
    ELSE "pass"

\* What the effect decides: auth-guard.tsx:29-47, unnamed/part_005:25-42
GuardDecision(g, variant, st, q, r, checked) ==
    IF GuardWaits(variant, st, q, r, checked) THEN "wait"
    ELSE IF ~st.isAuthenticated THEN "login"
    ELSE IF st.user # Null /\ st.user \notin allowedRoles(g) THEN "unauthorized"
    ELSE IF requiredScope(g) # Null /\ ~hasScope(st, requiredScope(g)) THEN "unauthorized"
    ELSE "pass"

\* The effect's dependency array: auth-guard.tsx:48-60, unnamed/part_005:43-53
GuardDeps(variant, st, q, r, checked, path) ==
    IF variant = "restore"
    THEN <<st.isAuthenticated, st.isLoading, IsValidatingSession(variant, q, r),
           checked, st.user, path, st.hasHydrated>>
    ELSE <<st.isAuthenticated, st.isLoading, FALSE, FALSE, st.user, path, st.hasHydrated>>

\* Which instances are in the tree: the layout's guard on every /dashboard route,
\* the page's guard inside it once the layout's guard renders its children.
Mounted(g, variant, st, q, r, gs, path) ==
    IF g = "outer" THEN startsWithDashboard(path)
    ELSE /\ path = "/dashboard/admin"
         /\ GuardRender(variant, st, q, r, gs["outer"].sessionChecked) = "children"

Unmounted == [sessionChecked |-> FALSE, fx |-> "unmounted", checks |-> 0]
AllUnmounted == [g \in Guards |-> Unmounted]

\* The component tree after a state change: unmounted instances lose their state,
\* new ones start with sessionChecked = false and their effect due, and a mounted
\* instance's effect is due again when one of its dependencies changed.
Rerender(g2) ==
    [g \in Guards |->
        IF ~Mounted(g, guardVariant', store', query', req', g2, pathname') THEN Unmounted
        ELSE IF g2[g].fx = "unmounted" THEN [sessionChecked |-> FALSE, fx |-> "dirty", checks |-> 0]
        ELSE IF GuardDeps(guardVariant', store', query', req', g2[g].sessionChecked, pathname')
                # GuardDeps(guardVariant, store, query, req, guards[g].sessionChecked, pathname)
             THEN [g2[g] EXCEPT !.fx = "dirty"]
        ELSE g2[g]]

Observers == Guards \cup {"validator"}

\* staleTime: 0 observers refetch whenever they are activated; with staleTime
\* 30000 (V2, V3, VA) data younger than 30 s, which is all data up to MaxNow,
\* is not refetched.
FetchOnActivate(o, v, q) ==
    IF o \in Guards \/ v = "V1" THEN TRUE ELSE q.data = Undefined

\* The observers after a state change. o2 holds "off" for the observers whose
\* query was removed from the cache.
Reobserve(o2, g2) ==
    [o \in Observers |->
        LET en == IF o = "validator"
                  THEN ValidatorEnabled(revalidator', store', lastAuthTime', now', pathname')
                  ELSE /\ g2[o].fx # "unmounted"
                       /\ RestoreEnabled(guardVariant', store', g2[o].sessionChecked)
        IN  IF ~en THEN "off"
            ELSE IF o2[o] # "off" THEN o2[o]
            ELSE IF req'.active \/ ~FetchOnActivate(o, revalidator', query') THEN "on"
            ELSE "armed"]

\* Every action ends by re-rendering: g2 and o2 are guards and obs as the action
\* itself leaves them.
Render(g2, o2) ==
    /\ guards' = Rerender(g2)
    /\ obs' = Reobserve(o2, Rerender(g2))

AllOff == [o \in Observers |-> "off"]

\* ----------------------------------------------------------------- router

NoSearch == [redirect |-> Null, expired |-> FALSE]
NoNav == [active |-> FALSE, path |-> "/auth", redirect |-> Null, expired |-> FALSE]

\* router.push(url): the navigation is pending until the router commits it; a
\* later push replaces an earlier one that has not been committed.
push(path, redirect, expired) ==
    [active |-> TRUE, path |-> path, redirect |-> redirect, expired |-> expired]

\* middleware.ts:7-47: the URL a request for `path` ends at.
middleware(path, ck, srch) ==
    IF startsWithAuth(path) THEN [path |-> path, search |-> srch]
    ELSE IF startsWithDashboard(path) /\ ck = "none"
         THEN [path |-> "/auth", search |-> [redirect |-> path, expired |-> TRUE]]
    ELSE [path |-> path, search |-> srch]

Bump(n) == IF n < 2 THEN n + 1 ELSE n

\* guardPushes after a step of the store: a change of what the guards decide on
\* (isAuthenticated, user) starts a new decision.
PushesOfDecision ==
    IF <<store'.isAuthenticated, store'.user>> # <<store.isAuthenticated, store.user>>
    THEN 0 ELSE guardPushes

\* persist writes localStorage after every set() of the store.
PersistAuthTime == storedLastAuthTime' = lastAuthTime'

Persist ==
    /\ storage' = Persisted(store')
    /\ PersistAuthTime

\* ------------------------------------------------------- CSRF token broker

\* The most fetches of /api/csrf one page load makes.
MaxFetches == 3
FetchIds == 1..MaxFetches

\* csrfToken = null, csrfPromise = null (use-csrf.ts:10-11)
NoToken == 0
NoPromise == 0

\* The submissions that call getCsrfToken: the two forms of the auth page and
\* the Sign Out button of MainLayout, which can be clicked again while the
\* first click's handler is still running.
Callers == {"login", "register", "logout", "logoutAgain"}
LogoutFlows == {"logout", "logoutAgain"}

\* pc: "idle", "awaitToken" (awaiting getCsrfToken()), "request" (the mutating
\* request is with the backend); awaited: the fetch whose promise getCsrfToken
\* returned; token: the token the request carries; error: the form shows an error.
IdleFlow == [pc |-> "idle", awaited |-> NoPromise, token |-> NoToken, error |-> FALSE]

NoFetches == [f \in FetchIds |-> [st |-> "unused", preClear |-> FALSE]]

InFlight(fs) == {f \in FetchIds : fs[f].st = "inflight"}

\* A getCsrfToken that fetches whenever no token is cached.
getCsrfTokenNoJoin(tok, promise) ==
    IF tok # NoToken THEN "cached" ELSE "fetch"

\* getCsrfToken, use-csrf.ts:35-52: the cached token, the promise of the fetch
\* in flight, or a new fetch.
getCsrfToken(tok, promise) ==
    IF tok # NoToken THEN "cached"
    ELSE IF promise # NoPromise THEN "join"
    ELSE "fetch"

\* clearCsrfToken, use-csrf.ts:57-60, sets both variables to null; a fetch in
\* flight goes on (remembered here as preClear).
clearCsrfToken(fs) ==
    [f \in FetchIds |->
        IF fs[f].st = "inflight" THEN [fs[f] EXCEPT !.preClear = TRUE] ELSE fs[f]]

\* A logout handler that clears the local state only when the backend confirmed.
handleLogoutCallsOnSuccess(outcome) ==
    IF outcome = "success" THEN {"logout", "clearCsrfToken", "push"} ELSE {}

\* main-layout.tsx:33-59: what the handler calls when the CSRF fetch failed
\* (catch, 52-58), the mutation succeeded (34-39) or failed (40-45).
handleLogoutCalls(outcome) ==
    CASE outcome = "csrf_failed" -> {"logout", "clearCsrfToken", "push"}
      [] outcome = "success" -> {"logout", "clearCsrfToken", "push"}
      [] outcome = "error" -> {"logout", "clearCsrfToken", "push"}
      [] OTHER -> {}

\* The role the forms submit unless the user picks another
\* (login-form.tsx:55, register-form.tsx:65).
SubmittedRoles == {"nurse"}

\* What a form shows when getCsrfToken() rejects: LoginForm's catch calls
\* setError (login-form.tsx:112-115), RegisterForm's catch only writes to the
\* console (register-form.tsx:99-102).
CsrfFailureShown(c) == c = "login"

\* No pure function is under test.
NoProbe == [fn |-> "none"]

\* --------------------------------------------------------- useTokenRefresh

\* forgot-password/page.tsx:305-306, and the delay of the retry timer (358)
TOKEN_REFRESH_BUFFER_MS == 300000
ACCESS_TOKEN_DURATION_MS == 3600000
RETRY_DELAY_MS == 30000

\* The timers one run of the model may set.
MaxTimers == 4
TimerIds == 1..MaxTimers
\* refreshTimeoutRef.current === undefined
NoTimer == 0

\* The times DashboardLayout may mount in one run; each mount has its own
\* refreshTimeoutRef and its own closures.
MaxMounts == 3
Mounts == 1..MaxMounts

\* A timer: its state, what its callback does, when it is due, and the mount
\* whose closure set it.
NoTimers ==
    [id \in TimerIds |-> [st |-> "unused", kind |-> "refresh", due |-> 0, mount |-> 0]]

\* The hook before DashboardLayout mounts: the number of the current mount, the
\* ref of every mount, the timers. errAt is an observation: the time of a
\* network error since which no refresh request was issued.
RefreshUnmounted ==
    [mounted |-> FALSE, mount |-> 0, refs |-> [m \in Mounts |-> NoTimer],
     timers |-> NoTimers, errAt |-> NoTime]

PendingTimers(r) == {id \in TimerIds : r.timers[id].st = "pending"}
FreeTimers(r) == {id \in TimerIds : r.timers[id].st = "unused"}
\* setTimeout hands out increasing ids.
NewTimer(r) == CHOOSE id \in FreeTimers(r) : \A other \in FreeTimers(r) : id <= other

\* clearTimeout(id): a pending timer is cancelled, anything else is left alone.
clearTimeout(r, id) ==
    IF id # NoTimer /\ r.timers[id].st = "pending"
    THEN [r EXCEPT !.timers[id].st = "cleared"]
    ELSE r

\* setTimeout(callback, delay) at time t by a closure of mount m, its id stored
\* in that mount's refreshTimeoutRef
setRefreshTimeout(r, m, kind, t, delay) ==
    [r EXCEPT !.timers[NewTimer(r)] =
                    [st |-> "pending", kind |-> kind, due |-> t + delay, mount |-> m],
              !.refs[m] = NewTimer(r)]

\* scheduleRefresh of a render of mount m whose isAuthenticated is isAuth,
\* called at time t: forgot-password/page.tsx:317-361
scheduleRefresh(r, m, isAuth, t) ==
    IF ~isAuth THEN r
    ELSE setRefreshTimeout(clearTimeout(r, r.refs[m]), m, "refresh", t,
                           ACCESS_TOKEN_DURATION_MS - TOKEN_REFRESH_BUFFER_MS)

\* The catch branch of the timer's callback, forgot-password/page.tsx:355-359
refreshCatch(r, m, t) ==
    [setRefreshTimeout(r, m, "retry", t, RETRY_DELAY_MS) EXCEPT !.errAt = t]

\* The cleanup of the effect of the current mount, forgot-password/page.tsx:366-370
refreshCleanup(r) == clearTimeout(r, r.refs[r.mount])

\* ------------------------------------------------------------------ useSSE

\* The two revisions of hooks/use-sse.ts: lines 13-74 and 104-207.
SseRevisions == {"EventSource", "fetch"}

\* The endpoints of usePatientVitals and useAlerts (use-sse.ts:209-223), the
\* credentials the store may hold, and the payloads of well-formed messages.
Endpoints == {"/alerts/stream", "/patients/p1/vitals/stream"}
Tokens == {"t1", "t2"}
Payloads == {"m1", "m2"}

\* The connections one run of the model may open.
MaxConns == 3
ConnIds == 1..MaxConns
\* eventSourceRef.current / abortControllerRef.current === null
NoConn == 0

\* !token is false
HasToken(tok) == tok \in Tokens

NoConns ==
    [c \in ConnIds |-> [st |-> "unused", endpoint |-> "", urlToken |-> Null, bearer |-> Null]]

\* The hook before its component mounts: props endpoint and enabled, the hook's
\* state (data, isConnected, error), its ref, the connection the current effect
\* run created (own), and every connection opened so far. onErrorCalls and
\* lastEvent are observations.
SseUnmounted(rev) ==
    [rev |-> rev, mounted |-> FALSE, endpoint |-> "/alerts/stream", enabled |-> TRUE,
     ref |-> NoConn, own |-> NoConn, conns |-> NoConns,
     isConnected |-> FALSE, error |-> FALSE, data |-> Null,
     onErrorCalls |-> 0, lastEvent |-> "none"]

NoSse == SseUnmounted("fetch")

\* The connections that are being established or are open.
Live(s) == {c \in ConnIds : s.conns[c].st \in {"connecting", "open"}}
FreeConns(s) == {c \in ConnIds : s.conns[c].st = "unused"}
NewConn(s) == CHOOSE c \in FreeConns(s) : \A other \in FreeConns(s) : c <= other

\* EventSource.close() / AbortController.abort() on connection c
closeConn(s, c) ==
    IF c # NoConn /\ s.conns[c].st \in {"connecting", "open"}
    THEN [s EXCEPT !.conns[c].st = "closed"]
    ELSE s

\* The body of the effect, use-sse.ts:25-33 and 116-136: with the EventSource the
\* credential is part of the URL, with fetch it is the Authorization header.
sseConnect(s, tok) ==
    IF ~s.enabled \/ ~HasToken(tok) THEN [s EXCEPT !.own = NoConn]
    ELSE [s EXCEPT !.conns[NewConn(s)] =
                        [st |-> "connecting", endpoint |-> s.endpoint,
                         urlToken |-> IF s.rev = "EventSource" THEN tok ELSE Null,
                         bearer |-> IF s.rev = "fetch" THEN tok ELSE Null],
                   !.ref = NewConn(s),
                   !.own = NewConn(s)]

\* A cleanup that forgets the connection without closing it.
sseCleanupLeavesOpen(s) ==
    IF s.own = NoConn THEN s
    ELSE [s EXCEPT !.ref = NoConn, !.isConnected = FALSE, !.own = NoConn]

\* The cleanup the effect returned, use-sse.ts:58-62 and 191-195
sseCleanup(s) ==
    IF s.own = NoConn THEN s
    ELSE [closeConn(s, s.own) EXCEPT !.ref = NoConn, !.isConnected = FALSE, !.own = NoConn]

\* onopen, use-sse.ts:35-38; an ok response, use-sse.ts:142-143
sseOnOpen(s, c) ==
    [s EXCEPT !.conns[c].st = "open", !.isConnected = TRUE, !.error = FALSE]

\* onmessage and the data: lines, use-sse.ts:40-48 and 165-176: what JSON.parse
\* rejects is logged and dropped.
sseOnMessage(s, wellFormed, payload) ==
    IF wellFormed THEN [s EXCEPT !.data = payload] ELSE s

\* An error handler that leaves the failed EventSource to reconnect.
sseOnErrorKeepsOpen(s, c) ==
    [s EXCEPT !.isConnected = FALSE, !.error = TRUE,
              !.onErrorCalls = Bump(s.onErrorCalls)]

\* onerror, use-sse.ts:50-56; the catch of connectSSE, use-sse.ts:178-186 (the
\* request or the read that threw has ended the connection)
sseOnError(s, c) ==
    [closeConn(s, c) EXCEPT !.isConnected = FALSE, !.error = TRUE,
                            !.onErrorCalls = Bump(s.onErrorCalls)]

\* The server ends the stream. An EventSource reports that as an error event
\* (use-sse.ts:50-56); the reader loop sees done and breaks (use-sse.ts:155-159).
sseOnEnd(s, c) ==
    IF s.rev = "EventSource" THEN sseOnError(s, c)
    ELSE [s EXCEPT !.conns[c].st = "closed"]

\* The close() the hook returns, use-sse.ts:69-72 and 202-205
sseClose(s) == [closeConn(s, s.ref) EXCEPT !.isConnected = FALSE]

\* Neither hook is mounted.
HooksAtRest == sse = NoSse /\ tokenRefresh = RefreshUnmounted

\* ------------------------------------------------------------------- Init

Init ==
    /\ store = InitialStore
    /\ lastAuthTime = NoTime
    /\ storage = Absent
    /\ storedLastAuthTime = NoTime
    /\ now = InitNow
    /\ cookie = "none"
    /\ cookieUser = NoUser
    /\ query = EmptyQuery
    /\ req = NoReq
    /\ pathname = "/auth"
    /\ search = NoSearch
    /\ nav = NoNav
    /\ revalidator \in Revalidators
    /\ guardVariant \in GuardVariants
    /\ guards = AllUnmounted
    /\ obs = AllOff
    /\ loginPc = "idle"
    /\ lastOp = "none"
    /\ expiredPushes = 0
    /\ guardPushes = 0
    /\ csrfToken = NoToken
    /\ csrfPromise = NoPromise
    /\ fetches = NoFetches
    /\ flows = [c \in Callers |-> IdleFlow]
    /\ probe = NoProbe
    /\ HooksAtRest

\* useSessionRestore's effect has something to do in guard g.
RestoreEffectDue(g) ==
    /\ guardVariant = "restore"
    /\ guards[g].fx # "unmounted"
    /\ \/ query.data \in Roles /\ ~store.isAuthenticated
       \/ query.data = Null /\ (~guards[g].sessionChecked \/ store.isLoading)

\* An observer that was activated has its fetch to start. useQuery subscribes
\* (and starts the fetch) before the effects declared after it run, and the
\* render already reports such a query as loading (the optimistic result).
FetchDue == ~req.active /\ \E o \in Observers : obs[o] = "armed"

\* React runs the effects of a render, and React Query starts its fetch, before
\* the event loop handles the next event (a response, a timer, a user action).
EffectsPending ==
    \/ \E g \in Guards : guards[g].fx = "dirty"
    \/ \E g \in Guards : RestoreEffectDue(g)
    \/ FetchDue
    \/ ValidatorDenies(revalidator, store, lastAuthTime, now, pathname, query, req)
    \/ ValidAuthRestores(revalidator, store, query, req)

\* ---------------------------------------------------------------- actions

\* persist's rehydration and onRehydrateStorage, auth-store.ts:91-93
Rehydrate ==
    /\ ~EffectsPending
    /\ ~store.hasHydrated
    /\ store' = setHasHydrated(Merge(store, storage), TRUE)
    /\ lastAuthTime' = storedLastAuthTime
    /\ Persist
    /\ UNCHANGED <<now, cookie, cookieUser, query, req, pathname, search, nav,
                   revalidator, guardVariant, loginPc, lastOp, expiredPushes>>
    /\ guardPushes' = PushesOfDecision
    /\ UNCHANGED <<csrfVars, probe, hookVars>>
    /\ Render(guards, obs)

\* A hard reload of the current URL: the request passes the middleware, the
\* module state (store, query cache, component state) starts afresh.
Reload ==
    /\ ~EffectsPending
    /\ store.hasHydrated
    /\ store' = InitialStore
    /\ lastAuthTime' = NoTime
    /\ query' = EmptyQuery
    /\ req' = NoReq
    /\ nav' = NoNav
    /\ loginPc' = "idle"
    /\ pathname' = middleware(pathname, cookie, search).path
    /\ search' = middleware(pathname, cookie, search).search
    /\ guardPushes' = 0
    /\ lastOp' = "none"
    /\ UNCHANGED <<storage, storedLastAuthTime, now, cookie, cookieUser, revalidator,
                   guardVariant, expiredPushes>>
    /\ UNCHANGED <<csrfVars, probe, hookVars>>
    /\ Render(AllUnmounted, AllOff)

\* Time passes, and the components render again.
Tick ==
    \E d \in TickSteps :
        /\ ~EffectsPending
        /\ now + d <= MaxNow
        /\ now' = now + d
        /\ UNCHANGED <<store, lastAuthTime, storage, storedLastAuthTime, cookie,
                       cookieUser, query, req, pathname, search, nav, revalidator,
                       guardVariant, loginPc, lastOp, expiredPushes,
                       guardPushes>>
        /\ UNCHANGED <<csrfVars, probe, hookVars>>
        /\ Render(guards, obs)

\* The backend revokes the session (e.g. from another device).
RevokeSession ==
    /\ ~EffectsPending
    /\ cookie = "valid"
    /\ cookie' = "revoked"
    /\ UNCHANGED <<store, lastAuthTime, storage, storedLastAuthTime, now, cookieUser,
                   query, req, pathname, search, nav, revalidator, guardVariant,
                   loginPc, lastOp, expiredPushes, guardPushes>>
    /\ UNCHANGED <<csrfVars, probe, hookVars>>
    /\ Render(guards, obs)

\* The browser drops the session cookies (expiry).
ExpireCookies ==
    /\ ~EffectsPending
    /\ cookie # "none"
    /\ cookie' = "none"
    /\ cookieUser' = NoUser
    /\ UNCHANGED <<store, lastAuthTime, storage, storedLastAuthTime, now,
                   query, req, pathname, search, nav, revalidator, guardVariant,
                   loginPc, lastOp, expiredPushes, guardPushes>>
    /\ UNCHANGED <<csrfVars, probe, hookVars>>
    /\ Render(guards, obs)

\* React Query fetches for an observer that was activated: one request for all.
\* The answer is the one authRouter.validateSession computes for the cookies sent;
\* the tRPC call itself may fail instead (transport).
QueryFetch ==
    /\ FetchDue
    /\ \E transport \in {"ok", "failed"}, backend \in BackendOutcomes(cookie) :
        req' = [active |-> TRUE,
                kind |-> IF transport = "ok" THEN "data" ELSE "error",
                user |-> IF transport = "ok"
                         THEN validateSession(cookie, cookieUser, backend) ELSE Null,
                explicit |-> transport = "ok" /\ ExplicitAnswer(backend),
                preLogin |-> FALSE]
    /\ UNCHANGED <<store, lastAuthTime, storage, storedLastAuthTime, now, cookie,
                   cookieUser, query, pathname, search, nav, revalidator, guardVariant,
                   loginPc, lastOp, expiredPushes, guardPushes>>
    /\ UNCHANGED <<csrfVars, probe, hookVars>>
    /\ Render([g \in Guards |->
                    IF obs[g] = "armed" THEN [guards[g] EXCEPT !.checks = Bump(@)]
                    ELSE guards[g]],
              [o \in Observers |-> IF obs[o] = "armed" THEN "on" ELSE obs[o]])

\* The request settles: data on success, status error (data kept) on failure.
QueryDeliver ==
    /\ ~EffectsPending
    /\ req.active
    /\ query' = IF req.kind = "data"
                THEN [status |-> "success", data |-> req.user,
                      explicit |-> req.explicit, preLogin |-> req.preLogin]
                ELSE [query EXCEPT !.status = "error"]
    /\ req' = NoReq
    /\ UNCHANGED <<store, lastAuthTime, storage, storedLastAuthTime, now, cookie,
                   cookieUser, pathname, search, nav, revalidator, guardVariant,
                   loginPc, lastOp, expiredPushes, guardPushes>>
    /\ UNCHANGED <<csrfVars, probe, hookVars>>
    /\ Render(guards, obs)

\* The effect of the mounted revalidation hook finds the session denied:
\* logout(), and (useSessionValidator only) router.push to the login route.
\* use-session-restore.ts:101-128, 174-189, 237-264, 304-323
ValidatorLogout ==
    /\ ~FetchDue
    /\ ValidatorDenies(revalidator, store, lastAuthTime, now, pathname, query, req)
    /\ store' = logout(store)
    /\ lastAuthTime' = clearedAuthTime
    /\ Persist
    /\ lastOp' = "validator"
    /\ IF revalidator = "VA"
       THEN UNCHANGED <<nav, expiredPushes>>
       ELSE /\ nav' = push("/auth", pathname, TRUE)
            /\ expiredPushes' = Bump(expiredPushes)
    /\ UNCHANGED <<now, cookie, cookieUser, query, req, pathname, search, revalidator,
                   guardVariant, loginPc>>
    /\ guardPushes' = PushesOfDecision
    /\ UNCHANGED <<csrfVars, probe, hookVars>>
    /\ Render(guards, obs)

\* useValidAuth restores the store from a confirming answer,
\* use-session-restore.ts:309-315. The effects of one commit all see the values
\* of that render: useSessionRestore's effect of a mounted AuthGuard sees the
\* same answer and the same unauthenticated store, and runs with it (33-37).
ValidAuthRestore ==
    /\ ~FetchDue
    /\ ValidAuthRestores(revalidator, store, query, req)
    /\ store' = setAuth(store, query.data, Undefined, Undefined, FALSE)
    /\ lastAuthTime' = recordAuthTime(now)
    /\ Persist
    /\ lastOp' = "none"
    /\ expiredPushes' = 0
    /\ UNCHANGED <<now, cookie, cookieUser, query, req, pathname, search, nav,
                   revalidator, guardVariant, loginPc>>
    /\ guardPushes' = PushesOfDecision
    /\ UNCHANGED <<csrfVars, probe, hookVars>>
    /\ Render([g \in Guards |->
                    IF RestoreEffectDue(g) THEN [guards[g] EXCEPT !.sessionChecked = TRUE]
                    ELSE guards[g]],
              obs)

\* The effect of useSessionRestore in a mounted AuthGuard,
\* use-session-restore.ts:33-43
SessionRestoreEffect(g) ==
    /\ ~FetchDue
    /\ guardVariant = "restore"
    /\ guards[g].fx # "unmounted"
    /\ \/ /\ query.data \in Roles /\ ~store.isAuthenticated
          /\ store' = setAuth(store, query.data, Undefined, Undefined, FALSE)
          /\ lastAuthTime' = recordAuthTime(now)
          /\ lastOp' = "none"
          /\ expiredPushes' = 0
       \/ /\ ~(query.data \in Roles /\ ~store.isAuthenticated)
          /\ query.data # Undefined /\ query.data = Null
          /\ ~guards[g].sessionChecked \/ store.isLoading
          /\ store' = setLoading(store, FALSE)
          /\ UNCHANGED <<lastAuthTime, lastOp, expiredPushes>>
    /\ Persist
    /\ UNCHANGED <<now, cookie, cookieUser, query, req, pathname, search, nav,
                   revalidator, guardVariant, loginPc>>
    /\ guardPushes' = PushesOfDecision
    /\ UNCHANGED <<csrfVars, probe, hookVars>>
    /\ Render([guards EXCEPT ![g].sessionChecked = TRUE], obs)

\* AuthGuard's effect runs after a render in which a dependency changed,
\* auth-guard.tsx:29-60, unnamed/part_005:25-53
GuardEffect(g) ==
    /\ ~FetchDue
    /\ guards[g].fx = "dirty"
    /\ LET d == GuardDecision(g, guardVariant, store, query, req, guards[g].sessionChecked)
       IN  /\ nav' = CASE d = "login" -> push("/auth", pathname, FALSE)
                       [] d = "unauthorized" -> push("/unauthorized", Null, FALSE)
                       [] OTHER -> nav
           /\ guardPushes' = IF d \in {"login", "unauthorized"}
                             THEN Bump(guardPushes) ELSE guardPushes
    /\ UNCHANGED <<store, lastAuthTime, storage, storedLastAuthTime, now, cookie,
                   cookieUser, query, req, pathname, search, revalidator, guardVariant,
                   loginPc, lastOp, expiredPushes>>
    /\ UNCHANGED <<csrfVars, probe, hookVars>>
    /\ Render([guards EXCEPT ![g].fx = "clean"], obs)

\* The router commits the pending navigation. The request for the new route
\* passes the middleware unless the router serves the route from its cache.
CommitNavigation ==
    /\ ~EffectsPending
    /\ nav.active
    /\ \E served \in {"server", "cache"} :
        LET target == [redirect |-> nav.redirect, expired |-> nav.expired]
            dest == IF served = "server" THEN middleware(nav.path, cookie, target)
                    ELSE [path |-> nav.path, search |-> target]
        IN  /\ pathname' = dest.path
            /\ search' = dest.search
    /\ nav' = NoNav
    /\ guardPushes' = 0
    /\ UNCHANGED <<store, lastAuthTime, storage, storedLastAuthTime, now, cookie,
                   cookieUser, query, req, revalidator, guardVariant, loginPc,
                   lastOp, expiredPushes>>
    /\ UNCHANGED <<csrfVars, probe, hookVars>>
    /\ Render(guards, obs)

\* The user follows a link or enters a URL.
UserNavigate ==
    /\ ~EffectsPending
    /\ store.hasHydrated
    /\ ~nav.active
    /\ \E p \in Dashboards \ {pathname} : nav' = push(p, Null, FALSE)
    /\ UNCHANGED <<store, lastAuthTime, storage, storedLastAuthTime, now, cookie,
                   cookieUser, query, req, pathname, search, revalidator, guardVariant,
                   loginPc, lastOp, expiredPushes, guardPushes>>
    /\ UNCHANGED <<csrfVars, probe, hookVars>>
    /\ Render(guards, obs)

\* LoginForm.onSubmit up to the POST, login-form.tsx:63-84
LoginSubmit ==
    /\ ~EffectsPending
    /\ pathname = "/auth" /\ store.hasHydrated
    /\ loginPc = "idle"
    /\ loginPc' = "posting"
    /\ UNCHANGED <<store, lastAuthTime, storage, storedLastAuthTime, now, cookie,
                   cookieUser, query, req, pathname, search, nav, revalidator,
                   guardVariant, lastOp, expiredPushes, guardPushes>>
    /\ UNCHANGED <<csrfVars, probe, hookVars>>
    /\ Render(guards, obs)

\* The login response arrives, login-form.tsx:86-107: on success the browser has
\* the cookies, setAuth(user), queryClient.clear(), then the 100 ms delay.
LoginResponse ==
    /\ ~EffectsPending
    /\ loginPc = "posting"
    /\ \/ /\ \E u \in Roles :
                /\ cookie' = "valid"
                /\ cookieUser' = u
                /\ store' = setAuth(store, u, Undefined, Undefined, FALSE)
          /\ lastAuthTime' = recordAuthTime(now)
          /\ Persist
          /\ query' = queryClientClear(MarkStaleQ(query))
          /\ req' = cancelOnClear(MarkStaleR(req))
          /\ loginPc' = "delay"
          /\ lastOp' = IF query.data = Null
                          \/ (req.active /\ req.kind = "data" /\ req.user = Null)
                       THEN "loginOverDenial" ELSE "none"
          /\ expiredPushes' = 0
          /\ guardPushes' = PushesOfDecision
          /\ UNCHANGED <<now, pathname, search, nav, revalidator, guardVariant>>
          /\ UNCHANGED <<csrfVars, probe, hookVars>>
          /\ Render(guards, AllOff)
       \/ /\ loginPc' = "idle"
          /\ UNCHANGED <<store, lastAuthTime, storage, storedLastAuthTime, now, cookie,
                         cookieUser, query, req, pathname, search, nav, revalidator,
                         guardVariant, lastOp, expiredPushes, guardPushes>>
          /\ UNCHANGED <<csrfVars, probe, hookVars>>
          /\ Render(guards, obs)

\* After the delay, login-form.tsx:109-111
LoginNavigate ==
    /\ ~EffectsPending
    /\ loginPc = "delay"
    /\ nav' = push(IF search.redirect # Null THEN search.redirect ELSE "/dashboard",
                   Null, FALSE)
    /\ loginPc' = "idle"
    /\ UNCHANGED <<store, lastAuthTime, storage, storedLastAuthTime, now, cookie,
                   cookieUser, query, req, pathname, search, revalidator, guardVariant,
                   lastOp, expiredPushes, guardPushes>>
    /\ UNCHANGED <<csrfVars, probe, hookVars>>
    /\ Render(guards, obs)

\* registerMutation's onSuccess, register-form.tsx:71-80 and 434-443: the
\* browser has the cookies, setAuth(user), router.push; the cache is not cleared.
RegisterSuccess ==
    /\ ~EffectsPending
    /\ pathname = "/auth" /\ store.hasHydrated
    /\ \E u \in Roles :
        /\ cookie' = "valid"
        /\ cookieUser' = u
        /\ store' = setAuth(store, u, Undefined, Undefined, FALSE)
    /\ lastAuthTime' = recordAuthTime(now)
    /\ Persist
    /\ query' = MarkStaleQ(query)
    /\ req' = MarkStaleR(req)
    /\ nav' = push(IF search.redirect # Null THEN search.redirect ELSE "/dashboard",
                   Null, FALSE)
    /\ lastOp' = "none"
    /\ expiredPushes' = 0
    /\ UNCHANGED <<now, pathname, search, revalidator, guardVariant, loginPc,
                   guardPushes>>
    /\ UNCHANGED <<csrfVars, probe, hookVars>>
    /\ Render(guards, obs)

\* MainLayout's logout once the mutation settled or the CSRF fetch failed,
\* main-layout.tsx:33-59: logout(), clearCsrfToken(), router.push("/auth").
\* The backend deletes the cookies when the call reached it and succeeded.
HandleLogout ==
    /\ ~EffectsPending
    /\ guards["outer"].fx # "unmounted"
    /\ GuardRender(guardVariant, store, query, req, guards["outer"].sessionChecked)
         = "children"
    /\ \E backendOk \in BOOLEAN :
        /\ cookie' = IF backendOk THEN "none" ELSE cookie
        /\ cookieUser' = IF backendOk THEN NoUser ELSE cookieUser
    /\ store' = logout(store)
    /\ lastAuthTime' = clearedAuthTime
    /\ Persist
    /\ nav' = push("/auth", Null, FALSE)
    /\ lastOp' = "handler"
    /\ UNCHANGED <<now, query, req, pathname, search, revalidator,
                   guardVariant, loginPc, expiredPushes>>
    /\ guardPushes' = PushesOfDecision
    /\ UNCHANGED <<csrfVars, probe, hookVars>>
    /\ Render(guards, obs)

Next ==
    \/ Rehydrate
    \/ Reload
    \/ Tick
    \/ RevokeSession
    \/ ExpireCookies
    \/ QueryFetch
    \/ QueryDeliver
    \/ ValidatorLogout
    \/ ValidAuthRestore
    \/ \E g \in Guards : SessionRestoreEffect(g)
    \/ \E g \in Guards : GuardEffect(g)
    \/ CommitNavigation
    \/ UserNavigate
    \/ LoginSubmit
    \/ LoginResponse
    \/ LoginNavigate
    \/ HandleLogout

Spec == Init /\ [][Next]_vars

\* The same with the registration form in use.
NextWithRegister == Next \/ RegisterSuccess

\* The application with the AuthGuard of components/auth/auth-guard.tsx and a
\* revalidation hook that reads a cached answer (staleTime 30000) from the
\* moment the store is authenticated: the useSessionValidator revision of
\* use-session-restore.ts:157-201, or useValidAuth.
RegisterInit == Init /\ guardVariant = "restore" /\ revalidator \in {"V2", "VA"}

RegisterSpec == RegisterInit /\ [][NextWithRegister]_vars

\* ------------------------------------------- submissions and the CSRF token

\* The auth page (or, after a login, the dashboard) is open and hydrated; no
\* guard or hook is looked at.
PageAtRest ==
    /\ store = setHasHydrated(InitialStore, TRUE)
    /\ lastAuthTime = NoTime
    /\ storage = Persisted(store)
    /\ storedLastAuthTime = NoTime
    /\ now = InitNow
    /\ cookie = "none"
    /\ cookieUser = NoUser
    /\ query = EmptyQuery
    /\ req = NoReq
    /\ pathname = "/auth"
    /\ search = NoSearch
    /\ nav = NoNav
    /\ revalidator = "V1"
    /\ guardVariant = "restore"
    /\ guards = AllUnmounted
    /\ obs = AllOff
    /\ loginPc = "idle"
    /\ lastOp = "none"
    /\ expiredPushes = 0
    /\ guardPushes = 0
    /\ csrfToken = NoToken
    /\ csrfPromise = NoPromise
    /\ fetches = NoFetches
    /\ flows = [c \in Callers |-> IdleFlow]

CsrfInit == PageAtRest /\ probe = NoProbe /\ HooksAtRest

\* The variables no submission touches.
UntouchedBySubmissions ==
    UNCHANGED <<now, pathname, search, revalidator, guardVariant, guards, obs, loginPc,
                lastOp, expiredPushes, guardPushes, probe, hookVars>>

\* A submission starts: LoginForm.onSubmit (login-form.tsx:63-68),
\* RegisterForm.onSubmit (register-form.tsx:96-98), handleLogout
\* (main-layout.tsx:48-51). It calls getCsrfToken(); with a cached token it goes
\* straight on to its mutating request.
Submit(c) ==
    /\ flows[c].pc = "idle"
    /\ c \in LogoutFlows => store.isAuthenticated
    /\ LET path == getCsrfToken(csrfToken, csrfPromise)
           shown == IF c = "login" THEN FALSE ELSE flows[c].error
       IN  CASE path = "cached" ->
                  /\ flows' = [flows EXCEPT ![c] =
                        [pc |-> "request", awaited |-> NoPromise, token |-> csrfToken,
                         error |-> FALSE]]
                  /\ UNCHANGED <<csrfToken, csrfPromise, fetches>>
             [] path = "join" ->
                  /\ flows' = [flows EXCEPT ![c] =
                        [pc |-> "awaitToken", awaited |-> csrfPromise, token |-> NoToken,
                         error |-> shown]]
                  /\ UNCHANGED <<csrfToken, csrfPromise, fetches>>
             [] OTHER ->
                  \E f \in FetchIds :
                      /\ fetches[f].st = "unused"
                      /\ \A g \in FetchIds : g < f => fetches[g].st # "unused"
                      /\ fetches' = [fetches EXCEPT ![f].st = "inflight"]
                      /\ csrfPromise' = f
                      /\ flows' = [flows EXCEPT ![c] =
                            [pc |-> "awaitToken", awaited |-> f, token |-> NoToken,
                             error |-> shown]]
                      /\ UNCHANGED csrfToken
    /\ UNCHANGED <<store, lastAuthTime, storage, storedLastAuthTime, cookie, cookieUser,
                   query, req, nav>>
    /\ UntouchedBySubmissions

\* The fetch of /api/csrf settles, use-csrf.ts:16-29 and 47-49. On success the
\* token is cached; either way the finally handler sets csrfPromise to null; then
\* the submissions awaiting the promise go on: with the token to their request,
\* or into their catch block (a logout handler's catch clears the local state).
FetchSettles(f) ==
    /\ fetches[f].st = "inflight"
    /\ \E ok \in BOOLEAN :
        LET waiting == {c \in Callers : flows[c].pc = "awaitToken" /\ flows[c].awaited = f}
            calls == IF ~ok /\ waiting \cap LogoutFlows # {}
                     THEN handleLogoutCalls("csrf_failed") ELSE {}
            settled == [fetches EXCEPT ![f].st = "done"]
        IN  /\ fetches' = IF "clearCsrfToken" \in calls THEN clearCsrfToken(settled)
                          ELSE settled
            /\ csrfToken' = IF ok THEN f
                            ELSE IF "clearCsrfToken" \in calls THEN NoToken
                            ELSE csrfToken
            /\ csrfPromise' = NoPromise
            /\ flows' = [c \in Callers |->
                    IF c \notin waiting THEN flows[c]
                    ELSE IF ok
                         THEN [pc |-> "request", awaited |-> f, token |-> f,
                               error |-> FALSE]
                    ELSE [IdleFlow EXCEPT !.error = CsrfFailureShown(c)]]
            /\ IF "logout" \in calls
               THEN /\ store' = logout(store)
                    /\ lastAuthTime' = clearedAuthTime
                    /\ Persist
               ELSE UNCHANGED <<store, lastAuthTime, storage, storedLastAuthTime>>
            /\ nav' = IF "push" \in calls THEN push("/auth", Null, FALSE) ELSE nav
    /\ UNCHANGED <<cookie, cookieUser, query, req>>
    /\ UntouchedBySubmissions

\* The mutating request of a submission settles: login-form.tsx:86-118,
\* register-form.tsx:71-80, main-layout.tsx:33-46.
RequestSettles(c) ==
    /\ flows[c].pc = "request"
    /\ \E ok \in BOOLEAN, u \in SubmittedRoles :
        LET calls == IF c \in LogoutFlows
                     THEN handleLogoutCalls(IF ok THEN "success" ELSE "error") ELSE {}
        IN  /\ flows' = [flows EXCEPT ![c] =
                                [IdleFlow EXCEPT !.error = (c \notin LogoutFlows /\ ~ok)]]
            /\ IF c \in LogoutFlows
               THEN /\ cookie' = IF ok THEN "none" ELSE cookie
                    /\ cookieUser' = IF ok THEN NoUser ELSE cookieUser
                    /\ IF "logout" \in calls
                       THEN /\ store' = logout(store)
                            /\ lastAuthTime' = clearedAuthTime
                            /\ Persist
                       ELSE UNCHANGED <<store, lastAuthTime, storage, storedLastAuthTime>>
                    /\ IF "clearCsrfToken" \in calls
                       THEN /\ csrfToken' = NoToken
                            /\ csrfPromise' = NoPromise
                            /\ fetches' = clearCsrfToken(fetches)
                       ELSE UNCHANGED <<csrfToken, csrfPromise, fetches>>
                    /\ nav' = IF "push" \in calls THEN push("/auth", Null, FALSE) ELSE nav
                    /\ UNCHANGED <<query, req>>
               ELSE IF ok
               THEN /\ cookie' = "valid"
                    /\ cookieUser' = u
                    /\ store' = setAuth(store, u, Undefined, Undefined, FALSE)
                    /\ lastAuthTime' = recordAuthTime(now)
                    /\ Persist
                    /\ query' = IF c = "login" THEN queryClientClear(MarkStaleQ(query))
                                ELSE MarkStaleQ(query)
                    /\ req' = IF c = "login" THEN cancelOnClear(MarkStaleR(req))
                              ELSE MarkStaleR(req)
                    /\ nav' = push(IF search.redirect # Null THEN search.redirect
                                   ELSE "/dashboard", Null, FALSE)
                    /\ UNCHANGED <<csrfToken, csrfPromise, fetches>>
               ELSE UNCHANGED <<store, lastAuthTime, storage, storedLastAuthTime, cookie,
                                cookieUser, query, req, nav, csrfToken, csrfPromise,
                                fetches>>
    /\ UntouchedBySubmissions

CsrfNext ==
    \/ \E c \in Callers : Submit(c)
    \/ \E f \in FetchIds : FetchSettles(f)
    \/ \E c \in Callers : RequestSettles(c)

CsrfSpec == CsrfInit /\ [][CsrfNext]_vars

\* Every fetch and every request that was sent settles, one way or the other.
CsrfLiveSpec ==
    /\ CsrfSpec
    /\ \A f \in FetchIds : WF_vars(FetchSettles(f))
    /\ \A c \in Callers : WF_vars(RequestSettles(c))

\* ------------------------------------------------------ pure functions

\* The roles and scopes hasScope is called with: the four roles of the table,
\* a role the table does not know, and (store only) no user; every scope some
\* role declares, and two that none declares.
ProbeRoles == UserRoles \cup {"guest"}
DeclaredScopes == UNION {ROLE_SCOPES(r) : r \in UserRoles}
ProbeScopes == DeclaredScopes \cup {"delete:patients", ""}

ScopeInit ==
    /\ PageAtRest
    /\ probe \in [fn : {"hasScope"}, role : ProbeRoles \cup {Null}, scope : ProbeScopes,
                  called : {{}}, byRole : {FALSE}, byStore : {FALSE}]
    /\ HooksAtRest

\* hasScope(role, scope) of lib/validations/auth.ts is called.
CallRoleHasScope ==
    /\ "role" \notin probe.called
    /\ probe.role # Null
    /\ probe' = [probe EXCEPT !.called = @ \cup {"role"},
                              !.byRole = roleHasScope(probe.role, probe.scope)]
    /\ UNCHANGED <<appVars, csrfVars, hookVars>>

\* The store's hasScope(scope) is called with probe.role as the store's user.
CallStoreHasScope ==
    /\ "store" \notin probe.called
    /\ probe' = [probe EXCEPT !.called = @ \cup {"store"},
                              !.byStore = hasScope([store EXCEPT !.user = probe.role],
                                                   probe.scope)]
    /\ UNCHANGED <<appVars, csrfVars, hookVars>>

ScopeNext == CallRoleHasScope \/ CallStoreHasScope

ScopeSpec == ScopeInit /\ [][ScopeNext]_vars

\* The grace periods of the hook's revisions, and the instants the clock is
\* read at: the page load, and up to two windows after it, just before, at and
\* just after the end of each window.
GraceWindows == {GRACE_PERIOD_MS_2, GRACE_PERIOD_MS_10}
GraceOffsets == {0} \cup UNION {{w - 1, w, w + 1} : w \in GraceWindows}
GraceTimes == {InitNow + a + b : a, b \in GraceOffsets}

ProbeGrace(windowMs, last, t) ==
    [fn |-> "grace", windowMs |-> windowMs,
     within |-> isWithinGracePeriod(last, t, windowMs)]

GraceInit ==
    /\ PageAtRest
    /\ \E w \in GraceWindows : probe = ProbeGrace(w, lastAuthTime, now)
    /\ HooksAtRest

\* Time passes and the hook renders again (use-session-restore.ts:72-73, 223-225).
GraceTick ==
    /\ \E t \in GraceTimes : t > now /\ now' = t
    /\ probe' = ProbeGrace(probe.windowMs, lastAuthTime, now')
    /\ UNCHANGED <<store, lastAuthTime, storage, storedLastAuthTime, cookie, cookieUser,
                   query, req, pathname, search, nav, revalidator, guardVariant, guards,
                   obs, loginPc, lastOp, expiredPushes, guardPushes, csrfVars, hookVars>>

\* An authentication: setAuth(user) at the current time.
GraceAuthenticate ==
    /\ \E u \in SubmittedRoles : store' = setAuth(store, u, Undefined, Undefined, FALSE)
    /\ lastAuthTime' = recordAuthTime(now)
    /\ Persist
    /\ probe' = ProbeGrace(probe.windowMs, lastAuthTime', now)
    /\ UNCHANGED <<now, cookie, cookieUser, query, req, pathname, search, nav,
                   revalidator, guardVariant, guards, obs, loginPc, lastOp,
                   expiredPushes, guardPushes, csrfVars, hookVars>>

\* logout() clears lastAuthTime.
GraceLogout ==
    /\ store.isAuthenticated
    /\ store' = logout(store)
    /\ lastAuthTime' = clearedAuthTime
    /\ Persist
    /\ probe' = ProbeGrace(probe.windowMs, lastAuthTime', now)
    /\ UNCHANGED <<now, cookie, cookieUser, query, req, pathname, search, nav,
                   revalidator, guardVariant, guards, obs, loginPc, lastOp,
                   expiredPushes, guardPushes, csrfVars, hookVars>>

GraceNext == GraceTick \/ GraceAuthenticate \/ GraceLogout

GraceSpec == GraceInit /\ [][GraceNext]_vars

\* -------------------------------------------------- the token refresh hook

\* The variables neither hook touches.
UntouchedByHooks ==
    UNCHANGED <<query, req, pathname, search, nav, revalidator, guardVariant, guards, obs,
                loginPc, lastOp, expiredPushes, guardPushes, csrfVars, probe>>

RefreshInit == PageAtRest /\ probe = NoProbe /\ HooksAtRest

\* DashboardLayout mounts (physicians-only/page.tsx:250-263): a new ref, and the
\* effect calls scheduleRefresh, forgot-password/page.tsx:363-364
RefreshMount ==
    /\ ~tokenRefresh.mounted
    /\ tokenRefresh.mount < MaxMounts
    /\ FreeTimers(tokenRefresh) # {}
    /\ tokenRefresh' = scheduleRefresh([tokenRefresh EXCEPT !.mounted = TRUE,
                                                            !.mount = @ + 1,
                                                            !.errAt = NoTime],
                                       tokenRefresh.mount + 1, store.isAuthenticated, now)
    /\ UNCHANGED <<store, lastAuthTime, storage, storedLastAuthTime, now, cookie,
                   cookieUser, sse>>
    /\ UntouchedByHooks

\* DashboardLayout unmounts: the effect's cleanup, forgot-password/page.tsx:366-370
RefreshUnmount ==
    /\ tokenRefresh.mounted
    /\ tokenRefresh' = [refreshCleanup(tokenRefresh) EXCEPT !.mounted = FALSE,
                                                            !.errAt = NoTime]
    /\ UNCHANGED <<store, lastAuthTime, storage, storedLastAuthTime, now, cookie,
                   cookieUser, sse>>
    /\ UntouchedByHooks

\* The store becomes authenticated (a login, a restored session). A mounted hook
\* gets a new scheduleRefresh, so its effect runs again: cleanup, then
\* scheduleRefresh, forgot-password/page.tsx:361-371
RefreshSetAuth ==
    /\ ~store.isAuthenticated
    /\ tokenRefresh.mounted => FreeTimers(tokenRefresh) # {}
    /\ \E u \in SubmittedRoles :
        /\ store' = setAuth(store, u, Undefined, Undefined, FALSE)
        /\ cookieUser' = u
    /\ cookie' = "valid"
    /\ lastAuthTime' = recordAuthTime(now)
    /\ Persist
    /\ tokenRefresh' = IF tokenRefresh.mounted
                       THEN scheduleRefresh(
                                [refreshCleanup(tokenRefresh) EXCEPT !.errAt = NoTime],
                                tokenRefresh.mount, TRUE, now)
                       ELSE tokenRefresh
    /\ UNCHANGED <<now, sse>>
    /\ UntouchedByHooks

\* logout() by the user or by a revalidation hook. The effect of a mounted hook
\* runs again: cleanup, then a scheduleRefresh that returns at once.
RefreshLogout ==
    /\ store.isAuthenticated
    /\ store' = logout(store)
    /\ lastAuthTime' = clearedAuthTime
    /\ Persist
    /\ tokenRefresh' = IF tokenRefresh.mounted
                       THEN scheduleRefresh(
                                [refreshCleanup(tokenRefresh) EXCEPT !.errAt = NoTime],
                                tokenRefresh.mount, FALSE, now)
                       ELSE tokenRefresh
    /\ UNCHANGED <<now, cookie, cookieUser, sse>>
    /\ UntouchedByHooks

\* The clock reaches the next pending timer and its callback runs. A refresh
\* timer issues the POST to /auth/refresh (forgot-password/page.tsx:330-341); a
\* retry timer calls scheduleRefresh (358), the one of the render that set it.
TimerFires(id) ==
    /\ tokenRefresh.timers[id].st = "pending"
    /\ \A other \in PendingTimers(tokenRefresh) :
            tokenRefresh.timers[id].due <= tokenRefresh.timers[other].due
    /\ now' = tokenRefresh.timers[id].due
    /\ IF tokenRefresh.timers[id].kind = "refresh"
       THEN tokenRefresh' = [tokenRefresh EXCEPT !.timers[id].st = "inflight",
                                                 !.errAt = NoTime]
       ELSE /\ FreeTimers(tokenRefresh) # {}
            /\ tokenRefresh' = scheduleRefresh(
                                   [tokenRefresh EXCEPT !.timers[id].st = "fired"],
                                   tokenRefresh.timers[id].mount, TRUE, now')
    /\ UNCHANGED <<store, lastAuthTime, storage, storedLastAuthTime, cookie, cookieUser,
                   sse>>
    /\ UntouchedByHooks

\* The refresh request of timer id settles, forgot-password/page.tsx:343-359:
\* an ok response schedules the next refresh, another response logs out, a
\* rejected fetch sets the retry timer.
RefreshSettles(id) ==
    /\ tokenRefresh.timers[id].st = "inflight"
    /\ LET r == [tokenRefresh EXCEPT !.timers[id].st = "done"]
       IN  \/ /\ FreeTimers(r) # {}
              /\ tokenRefresh' = scheduleRefresh(r, r.timers[id].mount, TRUE, now)
              /\ UNCHANGED <<store, lastAuthTime, storage, storedLastAuthTime>>
           \/ /\ store' = logout(store)
              /\ lastAuthTime' = clearedAuthTime
              /\ Persist
              /\ tokenRefresh' = IF r.mounted /\ store.isAuthenticated
                                 THEN [refreshCleanup(r) EXCEPT !.errAt = NoTime]
                                 ELSE r
           \/ /\ FreeTimers(r) # {}
              /\ tokenRefresh' = refreshCatch(r, r.timers[id].mount, now)
              /\ UNCHANGED <<store, lastAuthTime, storage, storedLastAuthTime>>
    /\ UNCHANGED <<now, cookie, cookieUser, sse>>
    /\ UntouchedByHooks

RefreshNext ==
    \/ RefreshMount
    \/ RefreshUnmount
    \/ RefreshSetAuth
    \/ RefreshLogout
    \/ \E id \in TimerIds : TimerFires(id)
    \/ \E id \in TimerIds : RefreshSettles(id)

RefreshSpec == RefreshInit /\ [][RefreshNext]_vars

\* ------------------------------------------------------ the useSSE instance

SseInit ==
    /\ PageAtRest
    /\ probe = NoProbe
    /\ tokenRefresh = RefreshUnmounted
    /\ \E rev \in SseRevisions : sse = SseUnmounted(rev)

\* The component mounts with its props: fresh state, and the effect runs.
SseMount ==
    /\ ~sse.mounted
    /\ FreeConns(sse) # {}
    /\ \E e \in Endpoints, en \in BOOLEAN :
        sse' = [sseConnect([SseUnmounted(sse.rev) EXCEPT !.mounted = TRUE,
                                                         !.endpoint = e,
                                                         !.enabled = en,
                                                         !.conns = sse.conns],
                           store.token)
                EXCEPT !.lastEvent = "mount"]
    /\ UNCHANGED <<store, lastAuthTime, storage, storedLastAuthTime, now, cookie,
                   cookieUser, tokenRefresh>>
    /\ UntouchedByHooks

\* The component unmounts: the cleanup runs and the hook's state is gone.
SseUnmount ==
    /\ sse.mounted
    /\ sse' = [SseUnmounted(sse.rev) EXCEPT !.conns = sseCleanup(sse).conns,
                                            !.lastEvent = "unmount"]
    /\ UNCHANGED <<store, lastAuthTime, storage, storedLastAuthTime, now, cookie,
                   cookieUser, tokenRefresh>>
    /\ UntouchedByHooks

\* The caller renders the hook with another endpoint or enabled flag: the
\* dependencies changed, so the cleanup runs and then the effect (use-sse.ts:63, 196).
SseSetProps ==
    /\ sse.mounted
    /\ FreeConns(sse) # {}
    /\ \E e \in Endpoints, en \in BOOLEAN :
        /\ <<e, en>> # <<sse.endpoint, sse.enabled>>
        /\ sse' = [sseConnect([sseCleanup(sse) EXCEPT !.endpoint = e, !.enabled = en],
                              store.token)
                   EXCEPT !.lastEvent = "props"]
    /\ UNCHANGED <<store, lastAuthTime, storage, storedLastAuthTime, now, cookie,
                   cookieUser, tokenRefresh>>
    /\ UntouchedByHooks

\* The hook as it is after a step that left the store's token as tok.
AfterTokenChange(tok) ==
    IF sse.mounted /\ tok # store.token
    THEN [sseConnect(sseCleanup(sse), tok) EXCEPT !.lastEvent = "token"]
    ELSE sse

\* setAuth(user, token): the LoginForm passes no token (login-form.tsx:99), other
\* callers may. A changed token runs the effect of a mounted hook again.
SseSetAuth ==
    /\ FreeConns(sse) # {}
    /\ \E u \in SubmittedRoles, tok \in Tokens \cup {Undefined} :
        /\ store' = setAuth(store, u, tok, Undefined, FALSE)
        /\ cookieUser' = u
    /\ store' # store
    /\ cookie' = "valid"
    /\ lastAuthTime' = recordAuthTime(now)
    /\ Persist
    /\ sse' = AfterTokenChange(store'.token)
    /\ UNCHANGED <<now, tokenRefresh>>
    /\ UntouchedByHooks

\* logout() sets the token to null.
SseLogout ==
    /\ store.isAuthenticated
    /\ store' = logout(store)
    /\ lastAuthTime' = clearedAuthTime
    /\ Persist
    /\ sse' = AfterTokenChange(store'.token)
    /\ UNCHANGED <<now, cookie, cookieUser, tokenRefresh>>
    /\ UntouchedByHooks

\* Connection c is established.
SseOpens(c) ==
    /\ sse.conns[c].st = "connecting"
    /\ sse' = [sseOnOpen(sse, c) EXCEPT !.lastEvent = "open"]
    /\ UNCHANGED <<store, lastAuthTime, storage, storedLastAuthTime, now, cookie,
                   cookieUser, tokenRefresh>>
    /\ UntouchedByHooks

\* A message arrives on the open connection c, well-formed JSON or not.
SseMessage(c) ==
    /\ sse.conns[c].st = "open"
    /\ \E wellFormed \in BOOLEAN, payload \in Payloads :
        sse' = [sseOnMessage(sse, wellFormed, payload)
                EXCEPT !.lastEvent = IF wellFormed THEN "message" ELSE "malformed"]
    /\ UNCHANGED <<store, lastAuthTime, storage, storedLastAuthTime, now, cookie,
                   cookieUser, tokenRefresh>>
    /\ UntouchedByHooks

\* The transport of connection c fails: while connecting (no route, a response
\* that is not ok) or while the stream is read.
SseTransportError(c) ==
    /\ c \in Live(sse)
    /\ sse' = [sseOnError(sse, c) EXCEPT !.lastEvent = "error"]
    /\ UNCHANGED <<store, lastAuthTime, storage, storedLastAuthTime, now, cookie,
                   cookieUser, tokenRefresh>>
    /\ UntouchedByHooks

\* The server ends the stream of the open connection c.
SseServerEnds(c) ==
    /\ sse.conns[c].st = "open"
    /\ sse' = [sseOnEnd(sse, c) EXCEPT !.lastEvent = "end"]
    /\ UNCHANGED <<store, lastAuthTime, storage, storedLastAuthTime, now, cookie,
                   cookieUser, tokenRefresh>>
    /\ UntouchedByHooks

\* The caller calls the close() the hook returned.
SseCallClose ==
    /\ sse.mounted
    /\ sse' = [sseClose(sse) EXCEPT !.lastEvent = "close"]
    /\ UNCHANGED <<store, lastAuthTime, storage, storedLastAuthTime, now, cookie,
                   cookieUser, tokenRefresh>>
    /\ UntouchedByHooks

SseNext ==
    \/ SseMount
    \/ SseUnmount
    \/ SseSetProps
    \/ SseSetAuth
    \/ SseLogout
    \/ \E c \in ConnIds : SseOpens(c)
    \/ \E c \in ConnIds : SseMessage(c)
    \/ \E c \in ConnIds : SseTransportError(c)
    \/ \E c \in ConnIds : SseServerEnds(c)
    \/ SseCallClose

SseSpec == SseInit /\ [][SseNext]_vars

\* ----------------------------------------------------------------- claims

\* A step in which the mounted revalidation hook calls logout().
ValidatorLogsOut == lastOp # "validator" /\ lastOp' = "validator"

\* A step in which the effect of AuthGuard instance g runs.
GuardEffectRuns(g) == guards[g].fx = "dirty" /\ guards'[g].fx = "clean"

\* C1: the revalidation hook calls logout() (and, for useSessionValidator,
\* pushes the login route) only when the validateSession query is not loading
\* and has been fetched; useSessionValidator does so only on a settled answer
\* whose user is null.
C1_LogoutOnlyOnSettledNull ==
    [][ValidatorLogsOut =>
          /\ ~QIsLoading(query, req)
          /\ QIsFetched(query)
          /\ revalidator # "VA" => query.data = Null]_vars

C1_Witness ==
    /\ lastOp = "validator"
    /\ revalidator = "V1"
    /\ query.data = Null
    /\ ~store.isAuthenticated
    /\ nav = push("/auth", pathname, TRUE)

\* C2: a logout by the revalidation hook follows only an answer in which the
\* backend itself said there is no session; a failed call to the backend (5xx,
\* network error, malformed body) or a failed query is not taken for a denial.
C2_AmbiguousFailureNeverDenies ==
    [][ValidatorLogsOut =>
          /\ query.status = "success"
          /\ query.data = Null
          /\ query.explicit]_vars

\* C3: when the answer is {user: null}, the store is authenticated and hydrated,
\* the route is not an auth route and the time is outside the grace window, the
\* next thing that happens to the session is the revalidator's logout: the store
\* is cleared and the login route is pushed with session_expired=true; that push
\* happens once, not zero times and not again on later renders.
C3Pre ==
    /\ revalidator # "VA"
    /\ query.data = Null /\ ~QIsLoading(query, req)
    /\ store.isAuthenticated /\ store.hasHydrated
    /\ ~startsWithAuth(pathname)
    /\ ~isWithinGracePeriod(lastAuthTime, now, GRACE_PERIOD_MS_10)

C3_ExplicitDenialClearsOnce ==
    /\ [][C3Pre =>
            \/ /\ store'.user = Null /\ ~store'.isAuthenticated
               /\ nav' = push("/auth", pathname, TRUE)
               /\ expiredPushes' = 1
            \/ /\ C3Pre'
               /\ UNCHANGED <<store, expiredPushes>>]_vars
    /\ [](expiredPushes <= 1)
    /\ [](lastOp = "validator" /\ revalidator # "VA" =>
            expiredPushes = 1 /\ store.user = Null /\ ~store.isAuthenticated)

C3_Witness ==
    /\ lastOp = "validator"
    /\ revalidator \in {"V1", "V2", "V3"}
    /\ expiredPushes = 1
    /\ ~store.isAuthenticated
    /\ now > InitNow
    /\ guards["outer"].fx = "clean"

\* C4: useSessionValidator is about to issue its request only when the store is
\* hydrated and authenticated, the time is outside the grace period after
\* lastAuthTime, and the path does not start with /auth.
C4_RequestOnlyWhenEligible ==
    (revalidator # "VA" /\ obs["validator"] = "armed") =>
        /\ store.hasHydrated
        /\ store.isAuthenticated
        /\ ~isWithinGracePeriod(lastAuthTime, now, GRACE_PERIOD_MS_2)
        /\ ~startsWithAuth(pathname)

\* C5: after LoginForm's setAuth(user), no logout by the revalidation hook acts
\* on an answer that was cached, or whose request was in flight, before that
\* login.
C5_StaleAnswerNeverDenies ==
    [][ValidatorLogsOut => ~query.preLogin]_vars

C5_Witness ==
    /\ lastOp = "loginOverDenial"
    /\ store.isAuthenticated
    /\ startsWithDashboard(pathname)
    /\ ~isWithinGracePeriod(lastAuthTime, now, GRACE_PERIOD_MS_10)
    /\ obs["validator"] = "on"
    /\ query.data \in Roles

\* C6: while the store has not hydrated, or the guard's session check has no
\* answer yet, a mounted AuthGuard renders the loading state and its effect
\* pushes no route.
GuardUnsettled(g) ==
    \/ ~store.hasHydrated
    \/ obs[g] \in {"armed", "on"} /\ query.status = "pending"

C6_LoadingWhileUnsettled ==
    /\ [](\A g \in Guards :
            guards[g].fx # "unmounted" /\ GuardUnsettled(g) =>
                GuardRender(guardVariant, store, query, req, guards[g].sessionChecked)
                    = "loading")
    /\ [][\A g \in Guards :
            GuardEffectRuns(g) /\ GuardUnsettled(g) =>
                nav' = nav /\ guardPushes' = guardPushes]_vars

C6_Witness ==
    /\ guardVariant = "restore"
    /\ guards["outer"].fx = "clean"
    /\ store.hasHydrated /\ ~store.isAuthenticated
    /\ req.active /\ query.status = "pending"
    /\ ~nav.active

C8_GuardIdempotent == guardPushes <= 1

\* C9: the persisted entry holds the keys user and isAuthenticated (next to
\* lastAuthTime) and no token field.
C9_NoTokenMaterial ==
    /\ "token" \notin storage.keys
    /\ "refreshToken" \notin storage.keys
    /\ storage.keys \subseteq {"user", "isAuthenticated"}

\* C10: after logout() the store holds no user, isAuthenticated is false,
\* lastAuthTime is null and the persisted entry is empty.
C10_LogoutEmptiesStorage ==
    lastOp \in {"validator", "handler"} =>
        /\ store.user = Null
        /\ ~store.isAuthenticated
        /\ lastAuthTime = NoTime
        /\ storage = Absent

\* C11: whatever setAuth, logout, setLoading, setHasHydrated and rehydration
\* from the persisted entry did so far, isAuthenticated is true exactly when
\* the store holds a user.
C11_AuthenticatedIffUser ==
    store.isAuthenticated <=> store.user # Null

\* An authenticated store that got its user back from the persisted entry: the
\* cookies are gone and the middleware sent the reloaded page to the login route.
C11_Witness ==
    /\ store.hasHydrated /\ store.isAuthenticated /\ store.user = "admin"
    /\ cookie = "none" /\ pathname = "/auth" /\ search.expired
    /\ loginPc = "idle" /\ query = EmptyQuery

NoFetchAbandoned == \A f \in FetchIds : ~fetches[f].preClear

\* C14: a getCsrfToken() call made while the fetch of an earlier call is in
\* flight starts no second fetch and awaits the same promise; the callers
\* awaiting one promise go on together with the same token, the one that fetch
\* returned. (Calls separated by a clearCsrfToken() during the fetch are C15's.)
C14_ConcurrentCallsShareOneFetch ==
    /\ [][\A c \in Callers :
            (NoFetchAbandoned /\ InFlight(fetches) # {}
             /\ flows[c].pc = "idle" /\ flows'[c].pc # "idle") =>
                /\ InFlight(fetches') = InFlight(fetches)
                /\ flows'[c].pc = "awaitToken"
                /\ flows'[c].awaited \in InFlight(fetches)]_vars
    /\ [](NoFetchAbandoned => Cardinality(InFlight(fetches)) <= 1)
    /\ [][\A c1, c2 \in Callers :
            (flows[c1].pc = "awaitToken" /\ flows[c2].pc = "awaitToken"
             /\ flows[c1].awaited = flows[c2].awaited /\ flows'[c1].pc = "request") =>
                /\ flows'[c2].pc = "request"
                /\ flows'[c2].token = flows'[c1].token
                /\ flows'[c1].token = flows[c1].awaited]_vars

C14_Witness ==
    /\ flows["login"].pc = "request" /\ flows["register"].pc = "request"
    /\ flows["login"].awaited = 1 /\ flows["register"].awaited = 1
    /\ flows["login"].token = 1 /\ flows["register"].token = 1
    /\ fetches[2].st = "unused"

\* C15: at most one fetch of the CSRF token is in flight, whatever the order of
\* getCsrfToken() calls, clearCsrfToken() calls and fetch completions.
C15_AtMostOneFetchInFlight ==
    Cardinality(InFlight(fetches)) <= 1

\* C16: the cached token, which the next getCsrfToken() returns, never comes
\* from a fetch that was in flight when clearCsrfToken() ran.
C16_TokenPostdatesClear ==
    csrfToken # NoToken => ~fetches[csrfToken].preClear

\* C17: when getCsrfToken() rejects, the login or register submission ends
\* without its request, with an error shown by the form, with the in-flight
\* marker cleared, and with the store as it was (unless a Sign Out awaiting the
\* same fetch cleared it).
C17_CsrfFailureBlocksAndSurfaces ==
    [][\A c \in {"login", "register"} :
        (flows[c].pc = "awaitToken" /\ flows'[c].pc = "idle") =>
            /\ flows'[c].error
            /\ csrfPromise' = NoPromise
            /\ \/ store' = store
               \/ \E l \in LogoutFlows :
                    flows[l].pc = "awaitToken" /\ flows[l].awaited = flows[c].awaited]_vars

\* C20: a Sign Out that was triggered comes to its end, and at its end (CSRF
\* fetch failed, backend confirmed, backend call failed) the store holds no
\* user, the CSRF token and promise are dropped and /auth is pushed.
C20_LogoutAlwaysClears ==
    /\ \A c \in LogoutFlows : (flows[c].pc # "idle") ~> (flows[c].pc = "idle")
    /\ [][\A c \in LogoutFlows :
            (flows[c].pc # "idle" /\ flows'[c].pc = "idle") =>
                /\ ~store'.isAuthenticated /\ store'.user = Null
                /\ csrfToken' = NoToken /\ csrfPromise' = NoPromise
                /\ nav' = push("/auth", Null, FALSE)]_vars

\* A Sign Out whose backend call failed: the cookies are still there, the
\* local state is gone.
C20_Witness ==
    /\ flows["logout"].pc = "idle" /\ flows["logoutAgain"].pc = "idle"
    /\ fetches[1].st = "done"
    /\ cookie = "valid"
    /\ ~store.isAuthenticated /\ store.user = Null
    /\ csrfToken = NoToken
    /\ nav = push("/auth", Null, FALSE)

\* C13: hasScope(role, scope) is true exactly when ROLE_SCOPES lists the scope
\* for the role, false for a scope no role declares and for a role the table
\* does not have; the store's hasScope(scope) agrees and is false without a
\* user. A nurse has write:vitals and not manage:users.
C13_HasScopeMatchesTable ==
    probe.fn = "hasScope" =>
        LET listed == probe.role \in UserRoles /\ probe.scope \in ROLE_SCOPES(probe.role)
        IN  /\ "role" \in probe.called =>
                /\ probe.byRole = listed
                /\ probe.scope \notin DeclaredScopes => ~probe.byRole
                /\ (probe.role = "nurse" /\ probe.scope = "write:vitals") => probe.byRole
                /\ (probe.role = "nurse" /\ probe.scope = "manage:users") => ~probe.byRole
            /\ "store" \in probe.called =>
                /\ probe.byStore = listed
                /\ probe.role = Null => ~probe.byStore
                /\ probe.scope \notin DeclaredScopes => ~probe.byStore

C13_Witness ==
    /\ probe.fn = "hasScope"
    /\ probe.role = "nurse" /\ probe.scope = "manage:users"
    /\ probe.called = {"role", "store"}
    /\ ~probe.byRole /\ ~probe.byStore

\* C18: the grace-window predicate is false without a lastAuthTime, true while
\* now - lastAuthTime < windowMs (so at lastAuthTime + windowMs - 1) and false
\* from then on (so at lastAuthTime + windowMs + 1); once false it stays false
\* as time advances, until an authentication sets lastAuthTime again.
C18_GraceWindowBoundary ==
    /\ [](probe.fn = "grace" =>
            /\ lastAuthTime = NoTime => ~probe.within
            /\ lastAuthTime # NoTime =>
                /\ probe.within = (now - lastAuthTime < probe.windowMs)
                /\ now = lastAuthTime + probe.windowMs - 1 => probe.within
                /\ now = lastAuthTime + probe.windowMs + 1 => ~probe.within)
    /\ [][(probe.fn = "grace" /\ ~probe.within /\ lastAuthTime' = lastAuthTime) =>
            ~probe'.within]_vars

\* A second authentication whose window has just elapsed.
C18_Witness ==
    /\ probe.fn = "grace" /\ probe.windowMs = GRACE_PERIOD_MS_2
    /\ lastAuthTime > InitNow
    /\ now = lastAuthTime + probe.windowMs + 1
    /\ ~probe.within

\* C19: when a form navigates away from the auth page after a successful
\* authentication (LoginForm after its delay, RegisterForm in onSuccess), the
\* query cache holds no answer, and awaits none, that was requested before the
\* setAuth: the cache was cleared between setAuth and the navigation.
C19_CacheClearedBeforeNavigation ==
    [][(\/ loginPc = "delay" /\ loginPc' = "idle"
        \/ store'.isAuthenticated /\ store' # store /\ nav' # nav /\ nav'.active) =>
            (~query'.preLogin /\ ~req'.preLogin)]_vars

\* C21: every logout that a failed session check causes comes with a push of
\* the login route carrying session_expired=true, and a user logged out that
\* way who is at rest on the login route has the marker in the URL.
C21_FailedCheckCarriesMarker ==
    /\ [][ValidatorLogsOut => nav' = push("/auth", pathname, TRUE)]_vars
    /\ [](lastOp = "validator" /\ pathname = "/auth" /\ ~nav.active => search.expired)

\* A mounted AuthGuard whose session check has answered with a user while the
\* hydrated store is not authenticated and the instance has not checked before.
RestorePre(g) ==
    /\ guardVariant = "restore"
    /\ guards[g].fx # "unmounted"
    /\ store.hasHydrated /\ ~store.isAuthenticated
    /\ ~guards[g].sessionChecked
    /\ query.data \in Roles
    /\ ~QIsLoading(query, req)

\* The restoration itself: from such a state the next change is the restore
\* (the store holds the answer's user and is authenticated, nothing is pushed,
\* the guard renders its children), and no guard effect pushes a route before.
RestoreStep ==
    \A g \in Guards :
        RestorePre(g) =>
            \/ /\ store'.isAuthenticated /\ store'.user = query.data
               /\ nav' = nav
               /\ guards'[g].sessionChecked
               /\ GuardRender(guardVariant, store', query', req',
                              guards'[g].sessionChecked) = "children"
            \/ /\ RestorePre(g)'
               /\ UNCHANGED <<store, nav>>

\* An answer with a user that arrives for an authenticated store changes
\* neither the store nor the pending navigation.
ConfirmingAnswerIsNoOp ==
    (store.isAuthenticated /\ query' # query /\ query'.data \in Roles) =>
        UNCHANGED <<store, nav, lastAuthTime>>

C26_ChildrenOnlyForAllowedUser ==
    \A g \in Guards :
        (/\ guards[g].fx # "unmounted"
         /\ GuardRender(guardVariant, store, query, req, guards[g].sessionChecked)
                = "children") =>
            /\ store.isAuthenticated
            /\ store.user \in allowedRoles(g)
            /\ requiredScope(g) # Null => hasScope(store, requiredScope(g))

\* C27: once the store has hydrated and the session check has settled (with an
\* answer or with an error) and every effect of the render has run, a mounted
\* AuthGuard is not left in the loading state: it renders its children or
\* nothing, or a redirect is under way.
C27_SettledGuardLeavesLoading ==
    \A g \in Guards :
        (/\ guards[g].fx # "unmounted"
         /\ store.hasHydrated
         /\ QIsFetched(query) /\ ~req.active
         /\ ~EffectsPending) =>
            \/ GuardRender(guardVariant, store, query, req, guards[g].sessionChecked)
                    # "loading"
            \/ nav.active

\* A step in which useTokenRefresh issues a refresh request.
RefreshIssued ==
    \E id \in TimerIds :
        tokenRefresh.timers[id].st = "pending" /\ tokenRefresh'.timers[id].st = "inflight"

\* C28: the refresh request that follows a network error of the previous one is
\* issued 30 seconds after that error.
C28_RetryAfterThirtySeconds ==
    [][(RefreshIssued /\ tokenRefresh.errAt # NoTime) =>
            now' = tokenRefresh.errAt + RETRY_DELAY_MS]_vars

\* C29: once isAuthenticated is false or the hook is unmounted no refresh timer
\* is pending and no refresh request is issued, and at most one refresh timer
\* is pending at any time.
C29_NoRefreshAfterLogoutOrUnmount ==
    /\ []((~store.isAuthenticated \/ ~tokenRefresh.mounted) =>
            PendingTimers(tokenRefresh) = {})
    /\ [](Cardinality(PendingTimers(tokenRefresh)) <= 1)
    /\ [][RefreshIssued => store.isAuthenticated /\ tokenRefresh.mounted]_vars

\* A step in which the useSSE instance opens connection c.
SseConnects(c) == sse.conns[c].st = "unused" /\ sse'.conns[c].st = "connecting"

\* C23: useSSE opens a connection only when enabled is true and the store holds
\* a credential; every connection carries that credential as a bearer header,
\* and no connection has the credential in its URL.
C23_CredentialInHeaderOnly ==
    /\ [][\A c \in ConnIds :
            SseConnects(c) => sse'.enabled /\ HasToken(store'.token)]_vars
    /\ [](\A c \in ConnIds :
            sse.conns[c].st # "unused" =>
                /\ sse.conns[c].bearer \in Tokens
                /\ sse.conns[c].urlToken = Null)

\* C24: at no time are two connections of the instance being established or
\* open, none is after the unmount, and a step that opens a connection leaves
\* no other connection open: every change of endpoint, enabled or credential
\* closes the previous connection no later than it opens the next.
C24_OneConnectionAtATime ==
    /\ [](Cardinality(Live(sse)) <= 1)
    /\ [](~sse.mounted => Live(sse) = {})
    /\ [][\A c \in ConnIds : SseConnects(c) => Live(sse') = {c}]_vars

C24_Witness ==
    /\ sse.mounted
    /\ sse.conns[1].st = "closed"
    /\ sse.conns[2].st = "closed"
    /\ sse.conns[3].st = "open"
    /\ sse.conns[1].endpoint # sse.conns[2].endpoint
    /\ <<sse.conns[2].urlToken, sse.conns[2].bearer>>
            # <<sse.conns[3].urlToken, sse.conns[3].bearer>>
    /\ sse.lastEvent = "open"

C30_ConnectedOnlyWhileOpen ==
    sse.isConnected => sse.ref # NoConn /\ sse.conns[sse.ref].st = "open"

====
